---- MODULE Spec2Model ----
(***************************************************************************)
(* Model of the notebook "Putting the Re in Reformer" (src/unnamed/        *)
(* part_000): function layers, the Branch combinator, the residual         *)
(* exercise cells (MyResidual, resfg), the reversible layers               *)
(* (ReversibleSwap, ReversibleHalfResidual) and the reversible model mod.  *)
(*                                                                         *)
(* A stack is a sequence of arrays, top of stack first; an array is a      *)
(* sequence of integers (np.array([1]) is <<1>>).  Every call of a layer   *)
(* in a notebook cell is one action: it records the cell, the stack it was *)
(* given, the stack it returned and the exception it raised, if any.       *)
(*                                                                         *)
(* The transformer decoder notebook (PositionalEncoder, FeedForward,       *)
(* DecoderBlock, TransformerLM) is modelled by the lists of layers its     *)
(* functions return and, under SpecLM, by the input positions each output  *)
(* position of the model is computed from.                                 *)
(***************************************************************************)
EXTENDS Integers, Sequences, FiniteSets, TLC

\* Bounds of the model.
MaxVal == 3

Vals == 0..MaxVal

\* The largest n_layers a model is built with.
MaxLayers == 3

\* The length of a token sequence.
MaxSeqLen == 3

VARIABLES cell, stack, out, err, half_res_F_weights, mod_built, mod_weights,
          acts, recon, lm_call, lm_args, lm_ret, lm_x, lm_y

\* The state of the transformer decoder notebook: the function called last,
\* its arguments and the layers it returned; two token sequences and what
\* the model returned for each of them.
lm_vars == <<lm_call, lm_args, lm_ret, lm_x, lm_y>>

vars == <<cell, stack, out, err, half_res_F_weights, mod_built, mod_weights,
          acts, recon, lm_vars>>

----------------------------------------------------------------------------
\* Arrays

\* np.array([v])
Arr(v) == <<v>>

\* a + k, elementwise
ArrPlus(a, k) == [i \in DOMAIN a |-> a[i] + k]

\* a + b, elementwise, equal shapes
ArrAdd(a, b) == [i \in DOMAIN a |-> a[i] + b[i]]

\* a - b, elementwise, equal shapes
ArrSub(a, b) == [i \in DOMAIN a |-> a[i] - b[i]]

\* k * a, elementwise
ArrScale(k, a) == [i \in DOMAIN a |-> k * a[i]]

Take(s, k) == SubSeq(s, 1, k)

Drop(s, k) == SubSeq(s, k + 1, Len(s))

----------------------------------------------------------------------------
\* Function layers built with tl.Fn

bl_add1 == [kind |-> "Fn", name |-> "add1"]

bl_add2 == [kind |-> "Fn", name |-> "add2"]

bl_add3 == [kind |-> "Fn", name |-> "add3"]

bl_addab == [kind |-> "Fn", name |-> "addab"]

bl_rep3x == [kind |-> "Fn", name |-> "add2x"]

Fl == [kind |-> "Fn", name |-> "F"]

Gl == [kind |-> "Fn", name |-> "G"]

\* The None argument of Branch and Serial.
NoneLayer == [kind |-> "None", name |-> "None"]

\* n_in of a layer: the number of stack entries it reads.
n_in(layer) ==
    IF layer.kind = "None" THEN 1
    ELSE IF layer.name = "addab" THEN 2 ELSE 1

\* n_out of a layer: the number of stack entries it pushes.
n_out(layer) ==
    IF layer.kind = "None" THEN 1
    ELSE IF layer.name = "add2x" THEN 3 ELSE 1

\* Variant of LayerApply: a None argument pushes nothing.
LayerApply_None_pushes_nothing(layer, xs) ==
    IF layer.kind = "None" THEN <<>>
    ELSE CASE layer.name = "add1" -> <<ArrPlus(xs[1], 1)>>
           [] layer.name = "add2" -> <<ArrPlus(xs[1], 2)>>
           [] layer.name = "add3" -> <<ArrPlus(xs[1], 3)>>
           [] layer.name = "addab" -> <<ArrAdd(xs[1], xs[2])>>
           [] layer.name = "add2x" -> <<xs[1], xs[1], xs[1]>>
           [] layer.name = "F" -> <<ArrScale(2, xs[1])>>
           [] layer.name = "G" -> <<ArrScale(10, xs[1])>>

\* The outputs of a layer on its n_in inputs xs (a sequence of arrays).
LayerApply(layer, xs) ==
    IF layer.kind = "None" THEN <<xs[1]>>
    ELSE CASE layer.name = "add1" -> <<ArrPlus(xs[1], 1)>>
           [] layer.name = "add2" -> <<ArrPlus(xs[1], 2)>>
           [] layer.name = "add3" -> <<ArrPlus(xs[1], 3)>>
           [] layer.name = "addab" -> <<ArrAdd(xs[1], xs[2])>>
           [] layer.name = "add2x" -> <<xs[1], xs[1], xs[1]>>
           [] layer.name = "F" -> <<ArrScale(2, xs[1])>>
           [] layer.name = "G" -> <<ArrScale(10, xs[1])>>

----------------------------------------------------------------------------
\* Combinators

RECURSIVE sum_n_in(_)
\* Variant of max_n_in: the total of the n_in instead of the largest.
sum_n_in(layers) ==
    IF layers = <<>> THEN 0
    ELSE n_in(Head(layers)) + sum_n_in(Tail(layers))

RECURSIVE max_n_in(_)
\* The largest n_in among the layers of a Branch.
max_n_in(layers) ==
    IF layers = <<>> THEN 0
    ELSE LET r == max_n_in(Tail(layers))
             h == n_in(Head(layers))
         IN  IF h > r THEN h ELSE r

RECURSIVE BranchOutputs_reversed(_, _)
\* Variant of BranchOutputs: the outputs pushed last layer first.
BranchOutputs_reversed(layers, st) ==
    IF layers = <<>> THEN <<>>
    ELSE BranchOutputs_reversed(Tail(layers), st)
         \o LayerApply(Head(layers), Take(st, n_in(Head(layers))))

RECURSIVE BranchOutputs(_, _)
\* Each layer of a Branch, in argument order, reads a copy of the top n_in
\* entries of the stack st; the outputs are pushed in succession.
BranchOutputs(layers, st) ==
    IF layers = <<>> THEN <<>>
    ELSE LayerApply(Head(layers), Take(st, n_in(Head(layers))))
         \o BranchOutputs(Tail(layers), st)

\* tl.Branch(*layers) applied to the stack st.
Branch(layers, st) == BranchOutputs(layers, st) \o Drop(st, max_n_in(layers))

RECURSIVE Serial(_, _)
\* tl.Serial(*layers) applied to the stack st: the layers in sequence, each
\* on the stack left by the one before it; no layers leave the stack as is.
Serial(layers, st) ==
    IF layers = <<>> THEN st
    ELSE Serial(Tail(layers),
                LayerApply(Head(layers), Take(st, n_in(Head(layers))))
                \o Drop(st, n_in(Head(layers))))

bl_3add1s == <<bl_add1, bl_add2, bl_add3>>

bl_3ops == <<bl_add1, bl_addab, bl_rep3x>>

bl_2ops == <<bl_add1, NoneLayer>>

\* MyResidual(layer): the body of tl.Serial( ) holds comments only.
MyResidual(layer) == <<>>

mr == MyResidual(bl_add1)

\* resfg: the body of tl.Serial( ) holds comments only.
resfg == <<>>

----------------------------------------------------------------------------
\* Reversible layers

\* Variant of Dup: the top of stack is left as the single copy it was.
Dup_no_copy(st) == st

\* tl.Dup(): copies the top of stack and leaves two copies of it on the stack.
Dup(st) == <<st[1], st[1]>> \o Drop(st, 1)

\* tl.ReversibleSwap(), forward: exchanges the two topmost stack entries.
ReversibleSwap(st) == <<st[2], st[1]>> \o Drop(st, 2)

\* Variant of ReversibleSwapReverse: the entries stay where they are.
ReversibleSwapReverse_no_exchange(st) == st

\* tl.ReversibleSwap(), reverse.
ReversibleSwapReverse(st) == <<st[2], st[1]>> \o Drop(st, 2)

\* Variant of ReversibleHalfResidual: the residual is computed from the top
\* of stack, as in an ordinary residual layer.
ReversibleHalfResidual_own_input(f, st) ==
    <<ArrAdd(st[1], LayerApply(f, <<st[1]>>)[1]), st[2]>> \o Drop(st, 2)

\* ReversibleHalfResidual(f), forward: the residual f computes from the
\* second entry is added to the top of stack; the second entry passes through.
ReversibleHalfResidual(f, st) ==
    <<ArrAdd(st[1], LayerApply(f, <<st[2]>>)[1]), st[2]>> \o Drop(st, 2)

\* ReversibleHalfResidual(f), reverse: the residual is subtracted again.
ReversibleHalfResidualReverse(f, st) ==
    <<ArrSub(st[1], LayerApply(f, <<st[2]>>)[1]), st[2]>> \o Drop(st, 2)

\* The number of sublayers of ReversibleHalfResidual(Fl): Serial[F].
half_res_F_sublayers == 1

\* blk, a list of 4 layers, each of them None.
blk == <<NoneLayer, NoneLayer, NoneLayer, NoneLayer>>

\* blks, a list of two entries, each of them None.
blks == <<NoneLayer, NoneLayer>>

\* mod = tl.Serial(None, None, None)
mod == <<NoneLayer, NoneLayer, NoneLayer>>

HalfRes(f) == [kind |-> "ReversibleHalfResidual", f |-> f]

Swap == [kind |-> "ReversibleSwap", f |-> NoneLayer]

\* The ReversibleSerial section of the printed structure of mod: two copies
\* of HalfResidual(F), Swap, HalfResidual(G), Swap.
ReversibleSection ==
    <<HalfRes(Fl), Swap, HalfRes(Gl), Swap, HalfRes(Fl), Swap, HalfRes(Gl), Swap>>

\* Variant of StageForward: a ReversibleSwap stage leaves the stack as is.
StageForward_no_swap(stage, st) ==
    IF stage.kind = "ReversibleSwap" THEN st
    ELSE ReversibleHalfResidual(stage.f, st)

\* One stage of a ReversibleSerial, forward.
StageForward(stage, st) ==
    IF stage.kind = "ReversibleSwap" THEN ReversibleSwap(st)
    ELSE ReversibleHalfResidual(stage.f, st)

\* One stage of a ReversibleSerial, reverse.
StageReverse(stage, st) ==
    IF stage.kind = "ReversibleSwap" THEN ReversibleSwapReverse(st)
    ELSE ReversibleHalfResidualReverse(stage.f, st)

RECURSIVE ForwardTrace(_, _)
\* The stack after each stage of a ReversibleSerial run forward on st,
\* first stage first.
ForwardTrace(stages, st) ==
    IF stages = <<>> THEN <<>>
    ELSE LET y == StageForward(Head(stages), st)
         IN  <<y>> \o ForwardTrace(Tail(stages), y)

RECURSIVE ReverseTrace(_, _)
\* The stack after undoing each stage of a ReversibleSerial run in reverse
\* on st, last stage first.
ReverseTrace(stages, st) ==
    IF stages = <<>> THEN <<>>
    ELSE LET k == Len(stages)
             x == StageReverse(stages[k], st)
         IN  <<x>> \o ReverseTrace(Take(stages, k - 1), x)

----------------------------------------------------------------------------
\* The transformer decoder notebook: layers

\* Default arguments of TransformerLM; dropout is counted in tenths.
vocab_size == 33300

d_model == 512

d_ff == 2048

n_layers_default == 6

n_heads == 8

dropout_default == 1

max_len == 4096

\* A layer: its kind, its numeric arguments, its dropout rate, its mode and
\* the layers it wraps.
Layer(kind, n1, n2, rate, mode, sub) ==
    [kind |-> kind, n1 |-> n1, n2 |-> n2, rate |-> rate, mode |-> mode,
     sub |-> sub]

tl_ShiftRight(mode) == Layer("ShiftRight", 0, 0, 0, mode, <<>>)

tl_Embedding(vocab, d) == Layer("Embedding", vocab, d, 0, "", <<>>)

tl_Dropout(rate, mode) == Layer("Dropout", 0, 0, rate, mode, <<>>)

tl_PositionalEncoding(len, mode) ==
    Layer("PositionalEncoding", len, 0, 0, mode, <<>>)

tl_LayerNorm == Layer("LayerNorm", 0, 0, 0, "", <<>>)

tl_Dense(n_units) == Layer("Dense", n_units, 0, 0, "", <<>>)

tl_Relu == Layer("Relu", 0, 0, 0, "", <<>>)

tl_LogSoftmax == Layer("LogSoftmax", 0, 0, 0, "", <<>>)

tl_CausalAttention(d, heads, rate, mode) ==
    Layer("CausalAttention", d, heads, rate, mode, <<>>)

\* tl.Residual(*layers): the layers it is given, lists flattened.
tl_Residual(layers) == Layer("Residual", 0, 0, 0, "", layers)

\* PositionalEncoder: embedding, dropout, positional encoding.
PositionalEncoder(vocab, d, dropout, len, mode) ==
    <<tl_Embedding(vocab, d),
      tl_Dropout(dropout, mode),
      tl_PositionalEncoding(len, mode)>>

\* FeedForward: the feed-forward block, its input normalized first.
FeedForward(d, dff, dropout, mode, ff_activation) ==
    <<tl_LayerNorm,
      tl_Dense(dff),
      ff_activation,
      tl_Dropout(dropout, mode),
      tl_Dense(d),
      tl_Dropout(dropout, mode)>>

\* Variant of DecoderBlock: a normalization layer also in front of the
\* feed-forward block.
DecoderBlock_norm_twice(d, dff, heads, dropout, mode, ff_activation) ==
    <<tl_Residual(<<tl_LayerNorm,
                    tl_CausalAttention(d, heads, dropout, mode)>>),
      tl_Residual(<<tl_LayerNorm>>
                  \o FeedForward(d, dff, dropout, mode, ff_activation))>>

\* DecoderBlock: two Residual blocks, around the normalized causal attention
\* and around the feed-forward block.
DecoderBlock(d, dff, heads, dropout, mode, ff_activation) ==
    <<tl_Residual(<<tl_LayerNorm,
                    tl_CausalAttention(d, heads, dropout, mode)>>),
      tl_Residual(FeedForward(d, dff, dropout, mode, ff_activation))>>

\* Variant of decoder_blocks: range(n_layers + 1).
decoder_blocks_one_more(n, block) == [i \in 1..(n + 1) |-> block]

\* decoder_blocks: [DecoderBlock(...) for _ in range(n_layers)]
decoder_blocks(n, block) == [i \in 1..n |-> block]

RECURSIVE deep_flatten(_)
\* The lists handed to tl.Serial, flattened into one list of layers.
deep_flatten(lists) ==
    IF lists = <<>> THEN <<>>
    ELSE Head(lists) \o deep_flatten(Tail(lists))

\* Variant of TransformerLM: the tokens are not shifted.
TransformerLM_no_shift(vocab, d, dff, n_layers, heads, dropout, len, mode, ff_activation) ==
    deep_flatten(<<
        PositionalEncoder(vocab, d, dropout, len, mode),
        deep_flatten(decoder_blocks(n_layers,
            DecoderBlock(d, dff, heads, dropout, mode, ff_activation))),
        <<tl_LayerNorm>>,
        <<tl_Dense(vocab)>>,
        <<tl_LogSoftmax>> >>)

\* TransformerLM: the layers of the tl.Serial it returns.
TransformerLM(vocab, d, dff, n_layers, heads, dropout, len, mode, ff_activation) ==
    deep_flatten(<<
        <<tl_ShiftRight(mode)>>,
        PositionalEncoder(vocab, d, dropout, len, mode),
        deep_flatten(decoder_blocks(n_layers,
            DecoderBlock(d, dff, heads, dropout, mode, ff_activation))),
        <<tl_LayerNorm>>,
        <<tl_Dense(vocab)>>,
        <<tl_LogSoftmax>> >>)

----------------------------------------------------------------------------
\* The transformer decoder notebook: what a model computes its outputs from
\*
\* An activation is modelled by what it is computed from: the set of the
\* pairs <<position, token>> of the input it reads, and the pair <<0, r>>
\* for the random mask r of an active dropout.  Positions count from 1.
\* Two activations computed the same way from the same pairs are equal,
\* whatever the weights of the layers are.

\* The activations of a token sequence: each position holds its own token.
Activations(tokens) == [t \in DOMAIN tokens |-> {<<t, tokens[t]>>}]

\* tl.ShiftRight: position t receives what position t - 1 held, the first
\* position receives the padding.
ShiftRightForward(xs) ==
    [t \in DOMAIN xs |-> IF t = 1 THEN {} ELSE xs[t - 1]]

\* tl.Dropout: active in mode 'train' with a positive rate, and then the
\* random mask enters every position.
DropoutForward(layer, xs, mask) ==
    IF layer.mode = "train" /\ layer.rate > 0
    THEN [t \in DOMAIN xs |-> xs[t] \cup {<<0, mask>>}]
    ELSE xs

\* tl.CausalAttention: position t attends to the positions up to t; its
\* dropout is the one of tl.Dropout.
CausalAttentionForward(layer, xs, mask) ==
    DropoutForward(layer,
                   [t \in DOMAIN xs |-> UNION {xs[s] : s \in 1..t}], mask)

\* The layers that compute each position from that position alone.
PositionwiseKinds ==
    {"Embedding", "PositionalEncoding", "LayerNorm", "Dense", "Relu",
     "LogSoftmax"}

RECURSIVE Forward(_, _, _)
\* The layers of a tl.Serial applied in sequence to the activations xs;
\* tl.Residual adds the output of its layers to their input.
Forward(layers, xs, mask) ==
    IF layers = <<>> THEN xs
    ELSE LET l == Head(layers)
             y == CASE l.kind = "ShiftRight" -> ShiftRightForward(xs)
                    [] l.kind = "Dropout" -> DropoutForward(l, xs, mask)
                    [] l.kind = "CausalAttention" ->
                           CausalAttentionForward(l, xs, mask)
                    [] l.kind = "Residual" ->
                           LET r == Forward(l.sub, xs, mask)
                           IN  [t \in DOMAIN xs |-> xs[t] \cup r[t]]
                    [] l.kind \in PositionwiseKinds -> xs
         IN  Forward(Tail(layers), y, mask)

----------------------------------------------------------------------------
\* The notebook session

Arrays == {Arr(v) : v \in Vals}

\* The entries n and m below the inputs: np.array([10]), np.array([20]).
RestArrays == {Arr(10), Arr(20)}

\* The state once the cells that build the layers have run.  tl.Serial is
\* handed three None arguments for mod: the library either ignores them or
\* rejects them with a ValueError, which leaves the name mod unbound.
Init ==
    /\ cell = "start"
    /\ stack = <<>>
    /\ out = <<>>
    /\ err = "none"
    /\ half_res_F_weights = 0
    /\ mod_built \in {"Serial", "ValueError"}
    /\ mod_weights = 0
    /\ acts = <<>>
    /\ recon = <<>>
    /\ lm_call = "none"
    /\ lm_args = [n_layers |-> 0, dropout |-> 0, mode |-> "train"]
    /\ lm_ret = <<>>
    /\ lm_x = <<>>
    /\ lm_y = <<>>

\* A call that returns: records the cell, its input and its result.
Returns(c, st, result) ==
    /\ cell' = c
    /\ stack' = st
    /\ out' = result
    /\ err' = "none"

\* A call of a layer that is not run stage by stage records no stage values.
NoStages ==
    /\ acts' = <<>>
    /\ recon' = <<>>

\* A call that raises: records the cell, its input and the exception.
Raises(c, st, e) ==
    /\ cell' = c
    /\ stack' = st
    /\ out' = <<>>
    /\ err' = e

\* bl_3add1s(x)
Call_bl_3add1s_x ==
    \E x \in Arrays :
        /\ Returns("bl_3add1s", <<x>>, Branch(bl_3add1s, <<x>>))
        /\ NoStages
        /\ UNCHANGED <<lm_vars, half_res_F_weights, mod_built, mod_weights>>

\* bl_3add1s([x, n, m])
Call_bl_3add1s ==
    \E x \in Arrays, n \in RestArrays, m \in RestArrays :
        /\ Returns("bl_3add1s", <<x, n, m>>, Branch(bl_3add1s, <<x, n, m>>))
        /\ NoStages
        /\ UNCHANGED <<lm_vars, half_res_F_weights, mod_built, mod_weights>>

\* bl_3ops([x, y, n, m])
Call_bl_3ops ==
    \E x \in Arrays, y \in Arrays, n \in RestArrays, m \in RestArrays :
        /\ Returns("bl_3ops", <<x, y, n, m>>, Branch(bl_3ops, <<x, y, n, m>>))
        /\ NoStages
        /\ UNCHANGED <<lm_vars, half_res_F_weights, mod_built, mod_weights>>

\* bl_2ops([x, n, m])
Call_bl_2ops ==
    \E x \in Arrays, n \in RestArrays, m \in RestArrays :
        /\ Returns("bl_2ops", <<x, n, m>>, Branch(bl_2ops, <<x, n, m>>))
        /\ NoStages
        /\ UNCHANGED <<lm_vars, half_res_F_weights, mod_built, mod_weights>>

\* mr([x, n, m])
Call_mr ==
    \E x \in Arrays, n \in RestArrays, m \in RestArrays :
        /\ Returns("mr", <<x, n, m>>, Serial(mr, <<x, n, m>>))
        /\ NoStages
        /\ UNCHANGED <<lm_vars, half_res_F_weights, mod_built, mod_weights>>

\* resfg([x1, n, m])
Call_resfg ==
    \E x \in Arrays, n \in RestArrays, m \in RestArrays :
        /\ Returns("resfg", <<x, n, m>>, Serial(resfg, <<x, n, m>>))
        /\ NoStages
        /\ UNCHANGED <<lm_vars, half_res_F_weights, mod_built, mod_weights>>

\* dl(x1)
Call_dl ==
    \E x \in Arrays :
        /\ Returns("dl", <<x>>, Dup(<<x>>))
        /\ NoStages
        /\ UNCHANGED <<lm_vars, half_res_F_weights, mod_built, mod_weights>>

\* sl([x1, x2])
Call_sl ==
    \E x1 \in Arrays, x2 \in Arrays :
        /\ Returns("sl", <<x1, x2>>, ReversibleSwap(<<x1, x2>>))
        /\ NoStages
        /\ UNCHANGED <<lm_vars, half_res_F_weights, mod_built, mod_weights>>

\* sl.reverse([x1, x2]), on fresh arrays or on what sl has just returned
Call_sl_reverse ==
    \E st \in {<<x1, x2>> : x1 \in Arrays, x2 \in Arrays}
              \cup (IF cell = "sl" THEN {out} ELSE {}) :
        /\ Returns("sl.reverse", st, ReversibleSwapReverse(st))
        /\ NoStages
        /\ UNCHANGED <<lm_vars, half_res_F_weights, mod_built, mod_weights>>

\* half_res_F.init(shapes.signature([x1, x1])): one weight element for each
\* sublayer.
Init_half_res_F ==
    /\ half_res_F_weights' = half_res_F_sublayers
    /\ cell' = "half_res_F.init"
    /\ UNCHANGED <<lm_vars, stack, out, err, mod_built, mod_weights, acts, recon>>

\* Variant of Call_half_res_F: the weights are not looked at.
Call_half_res_F_unchecked ==
    \E x1 \in Arrays, x2 \in Arrays :
        /\ Returns("half_res_F", <<x1, x2>>,
                   ReversibleHalfResidual(Fl, <<x1, x2>>))
        /\ NoStages
        /\ UNCHANGED <<lm_vars, half_res_F_weights, mod_built, mod_weights>>

\* half_res_F([x1, x2]): a LayerError unless the layer holds a weight
\* element for each of its sublayers.
Call_half_res_F ==
    \E x1 \in Arrays, x2 \in Arrays :
        /\ IF half_res_F_weights # half_res_F_sublayers
           THEN Raises("half_res_F", <<x1, x2>>, "LayerError")
           ELSE Returns("half_res_F", <<x1, x2>>,
                        ReversibleHalfResidual(Fl, <<x1, x2>>))
        /\ NoStages
        /\ UNCHANGED <<lm_vars, half_res_F_weights, mod_built, mod_weights>>

\* mod.init(shapes.signature(x1))
Init_mod ==
    /\ IF mod_built = "Serial"
       THEN /\ mod_weights' = 1
            /\ cell' = "mod.init"
            /\ UNCHANGED <<stack, out, err>>
       ELSE /\ Raises("mod.init", <<>>, "NameError")
            /\ UNCHANGED mod_weights
    /\ UNCHANGED <<lm_vars, half_res_F_weights, mod_built, acts, recon>>

\* out = mod(x1)
Call_mod ==
    \E x \in Arrays :
        /\ IF mod_built = "Serial"
           THEN Returns("mod", <<x>>, Serial(mod, <<x>>))
           ELSE Raises("mod", <<x>>, "NameError")
        /\ NoStages
        /\ UNCHANGED <<lm_vars, half_res_F_weights, mod_built, mod_weights>>

\* The reversible section run forward on [x1, x2], the output of every stage
\* recorded after the input.
Run_forward ==
    \E x1 \in Arrays, x2 \in Arrays :
        /\ acts' = <<(<<x1, x2>>)>> \o ForwardTrace(ReversibleSection, <<x1, x2>>)
        /\ recon' = <<>>
        /\ Returns("ReversibleSerial", <<x1, x2>>, acts'[Len(acts')])
        /\ UNCHANGED <<lm_vars, half_res_F_weights, mod_built, mod_weights>>

\* The reversible section run in reverse on the outputs of its last stage
\* alone, the stack recovered at every stage recorded after them.
Run_reverse ==
    /\ cell = "ReversibleSerial"
    /\ recon' = <<out>> \o ReverseTrace(ReversibleSection, out)
    /\ Returns("ReversibleSerial.reverse", out, recon'[Len(recon')])
    /\ UNCHANGED <<lm_vars, half_res_F_weights, mod_built, mod_weights, acts>>

Next ==
    \/ Call_bl_3add1s_x
    \/ Call_bl_3add1s
    \/ Call_bl_3ops
    \/ Call_bl_2ops
    \/ Call_mr
    \/ Call_resfg
    \/ Call_dl
    \/ Call_sl
    \/ Call_sl_reverse
    \/ Init_half_res_F
    \/ Call_half_res_F
    \/ Init_mod
    \/ Call_mod
    \/ Run_forward
    \/ Run_reverse

Spec == Init /\ [][Next]_vars

----------------------------------------------------------------------------
\* The transformer decoder notebook: calls

Modes == {"train", "eval"}

\* The dropout rates a function is called with, in tenths.
Rates == {0, dropout_default}

\* The layer notebook is left alone by the decoder notebook.
LayersUnchanged ==
    UNCHANGED <<cell, stack, out, err, half_res_F_weights, mod_built,
                mod_weights, acts, recon>>

\* A call of a function of the decoder notebook: records the function, its
\* arguments and the layers it returned.
Built(f, n, dropout, mode, layers) ==
    /\ lm_call' = f
    /\ lm_args' = [n_layers |-> n, dropout |-> dropout, mode |-> mode]
    /\ lm_ret' = layers
    /\ lm_x' = <<>>
    /\ lm_y' = <<>>

\* PositionalEncoder(vocab_size, d_model, dropout, max_len, mode)
Call_PositionalEncoder ==
    \E dropout \in Rates, mode \in Modes :
        /\ Built("PositionalEncoder", 0, dropout, mode,
                 PositionalEncoder(vocab_size, d_model, dropout, max_len, mode))
        /\ LayersUnchanged

\* FeedForward(d_model, d_ff, dropout, mode, ff_activation)
Call_FeedForward ==
    \E dropout \in Rates, mode \in Modes :
        /\ Built("FeedForward", 0, dropout, mode,
                 FeedForward(d_model, d_ff, dropout, mode, tl_Relu))
        /\ LayersUnchanged

\* DecoderBlock(d_model, d_ff, n_heads, dropout, mode, ff_activation)
Call_DecoderBlock ==
    \E dropout \in Rates, mode \in Modes :
        /\ Built("DecoderBlock", 0, dropout, mode,
                 DecoderBlock(d_model, d_ff, n_heads, dropout, mode, tl_Relu))
        /\ LayersUnchanged

\* TransformerLM(n_layers=..., dropout=..., mode=...)
Call_TransformerLM ==
    \E n \in 0..MaxLayers, dropout \in Rates, mode \in Modes :
        /\ Built("TransformerLM", n, dropout, mode,
                 TransformerLM(vocab_size, d_model, d_ff, n, n_heads, dropout,
                               max_len, mode, tl_Relu))
        /\ LayersUnchanged

\* TransformerLM(), every argument at its default
Call_TransformerLM_default ==
    /\ Built("TransformerLM()", n_layers_default, dropout_default, "train",
             TransformerLM(vocab_size, d_model, d_ff, n_layers_default,
                           n_heads, dropout_default, max_len, "train", tl_Relu))
    /\ LayersUnchanged

\* Two tokens of the vocabulary; 0 is the padding.
Tokens == {1, 2}

TokenSeqs == [1..MaxSeqLen -> Tokens]

\* Two token sequences are chosen as inputs of the model.
Choose_tokens ==
    \E a \in TokenSeqs, b \in TokenSeqs :
        /\ lm_x' = <<a, b>>
        /\ lm_y' = <<>>
        /\ UNCHANGED <<lm_call, lm_args, lm_ret>>
        /\ LayersUnchanged

\* The model TransformerLM returned is applied to each of the two token
\* sequences; each call draws its own dropout mask.
Call_model ==
    /\ lm_call \in {"TransformerLM", "TransformerLM()"}
    /\ lm_x # <<>>
    /\ \E ma \in 1..2, mb \in 1..2 :
          lm_y' = <<Forward(lm_ret, Activations(lm_x[1]), ma),
                    Forward(lm_ret, Activations(lm_x[2]), mb)>>
    /\ UNCHANGED <<lm_call, lm_args, lm_ret, lm_x>>
    /\ LayersUnchanged

NextLM ==
    \/ Choose_tokens
    \/ Call_model
    \/ Call_PositionalEncoder
    \/ Call_FeedForward
    \/ Call_DecoderBlock
    \/ Call_TransformerLM
    \/ Call_TransformerLM_default

SpecLM == Init /\ [][NextLM]_vars

----------------------------------------------------------------------------
\* Properties

\* The last two entries of a stack.
Bottom2(st) == SubSeq(st, Len(st) - 1, Len(st))

\* C1: resfg applied to [1, n, m] returns (1089, n, m).
C1_resfg_returns_1089 ==
    (cell = "resfg" /\ stack[1] = Arr(1))
        => out = <<Arr(1089), stack[2], stack[3]>>

\* C2: mod, after init on the signature of x1, applied to 1 returns the
\* two-element array [65, 681].
C2_mod_returns_65_681 ==
    (cell = "mod" /\ mod_weights = 1 /\ stack = <<Arr(1)>>)
        => (err = "none" /\ out = << <<65, 681>> >>)

\* C3: MyResidual(add1) applied to [x, n, m] returns (x + (x + 1), n, m);
\* on [1, n, m] it returns (3, n, m).
C3_MyResidual_is_residual ==
    cell = "mr"
        => out = <<ArrAdd(stack[1], ArrPlus(stack[1], 1)), stack[2], stack[3]>>

\* C4: every layer of a Branch reads the original top entries, max n_in
\* entries are popped and the outputs are pushed in argument order:
\* Branch(add1, add2, add3) on [x, ...] returns (x+1, x+2, x+3, ...) and
\* Branch(add1, addab, rep3x) on [x, y, n, m] returns
\* (x+1, x+y, x, x, x, n, m), 5 produced entries.
C4_Branch_outputs ==
    /\ cell = "bl_3add1s"
         => /\ Take(out, 3) = <<ArrPlus(stack[1], 1), ArrPlus(stack[1], 2),
                                ArrPlus(stack[1], 3)>>
            /\ Len(out) = Len(stack) - 1 + 3
    /\ cell = "bl_3ops"
         => /\ Take(out, 5) = <<ArrPlus(stack[1], 1), ArrAdd(stack[1], stack[2]),
                                stack[1], stack[1], stack[1]>>
            /\ Len(out) = Len(stack) - 2 + 5
            /\ n_out(bl_add1) + n_out(bl_addab) + n_out(bl_rep3x) = 5

C4_witness ==
    /\ cell = "bl_3ops"
    /\ stack = <<Arr(1), Arr(3), Arr(10), Arr(20)>>
    /\ out = <<Arr(2), Arr(4), Arr(1), Arr(1), Arr(1), Arr(10), Arr(20)>>

\* C5: a Branch leaves the entries below the ones it consumes intact: n and
\* m come after the outputs of the Branch, unchanged and in their order.
C5_Branch_frame ==
    (cell \in {"bl_3add1s", "bl_3ops", "bl_2ops"} /\ Len(stack) >= 3)
        => /\ Len(out) >= 2
           /\ Bottom2(out) = Bottom2(stack)

C5_witness ==
    /\ cell = "bl_3add1s"
    /\ stack = <<Arr(1), Arr(10), Arr(20)>>
    /\ out = <<Arr(2), Arr(3), Arr(4), Arr(10), Arr(20)>>

\* C6: Branch(add1, None) on [x, n, m] returns (x + 1, x, n, m): the None
\* argument pushes the top of stack unchanged at its position, and x is
\* consumed once.
C6_Branch_None ==
    cell = "bl_2ops"
        => out = <<ArrPlus(stack[1], 1), stack[1], stack[2], stack[3]>>

C6_witness ==
    /\ cell = "bl_2ops"
    /\ stack = <<Arr(1), Arr(10), Arr(20)>>
    /\ out = <<Arr(2), Arr(1), Arr(10), Arr(20)>>

\* C7: the initialized half_res_F applied to (x1, x2) returns
\* (x1 + 2 * x2, x2); on [1, 1] it returns (3, 1).
C7_HalfResidual_forward ==
    (cell = "half_res_F" /\ err = "none")
        => out = <<ArrAdd(stack[1], ArrScale(2, stack[2])), stack[2]>>

C7_witness ==
    /\ cell = "half_res_F"
    /\ err = "none"
    /\ stack = <<Arr(1), Arr(1)>>
    /\ out = <<Arr(3), Arr(1)>>

\* C8: a call of half_res_F before init (0 weight elements for 1 sublayer)
\* fails with a LayerError and yields no output; after init the call
\* succeeds.
C8_uninitialized_LayerError ==
    cell = "half_res_F"
        => /\ half_res_F_weights = 0 => (err = "LayerError" /\ out = <<>>)
           /\ half_res_F_weights = 1 => (err = "none" /\ Len(out) = 2)

C8_witness ==
    /\ cell = "half_res_F"
    /\ half_res_F_weights = 0
    /\ err = "LayerError"
    /\ stack = <<Arr(1), Arr(1)>>

C11_Dup_two_copies ==
    cell = "dl"
        => /\ out = <<stack[1], stack[1]>>
           /\ Len(out) = Len(stack) + 1

C11_witness ==
    /\ cell = "dl"
    /\ stack = <<Arr(1)>>
    /\ out = <<Arr(1), Arr(1)>>

\* The positions of the layers of the given kind in a list of layers.
Positions(layers, kind) == {i \in 1..Len(layers) : layers[i].kind = kind}

\* C12: the Serial TransformerLM returns holds ShiftRight,
\* Embedding(vocab_size, d_model), Dropout, PositionalEncoding(max_len),
\* n_layers decoder blocks (two Residual layers each), LayerNorm,
\* Dense(vocab_size), LogSoftmax, in this order and nothing else; 6 blocks by
\* default.
C12_TransformerLM_layers ==
    lm_call \in {"TransformerLM", "TransformerLM()"}
        => LET n == lm_args.n_layers
               r == lm_ret
           IN  /\ lm_call = "TransformerLM()" => n = 6
               /\ Len(r) = 4 + 2 * n + 3
               /\ r[1].kind = "ShiftRight"
               /\ r[2].kind = "Embedding" /\ r[2].n1 = 33300 /\ r[2].n2 = 512
               /\ r[3].kind = "Dropout"
               /\ r[4].kind = "PositionalEncoding" /\ r[4].n1 = 4096
               /\ Positions(r, "Residual") = 5..(4 + 2 * n)
               /\ \A i \in 1..n :
                    /\ r[3 + 2 * i].sub[2].kind = "CausalAttention"
                    /\ r[4 + 2 * i].sub[2].kind = "Dense"
               /\ r[5 + 2 * n].kind = "LayerNorm"
               /\ r[6 + 2 * n].kind = "Dense" /\ r[6 + 2 * n].n1 = 33300
               /\ r[7 + 2 * n].kind = "LogSoftmax"

C12_witness ==
    /\ lm_call = "TransformerLM()"
    /\ lm_args.n_layers = 6
    /\ Len(lm_ret) = 19
    /\ Cardinality(Positions(lm_ret, "Residual")) = 12

\* C13: DecoderBlock returns exactly two Residual blocks, the first around
\* LayerNorm and CausalAttention(d_model, n_heads, dropout, mode), the second
\* around the feed-forward block alone, whose first layer is LayerNorm; each
\* block holds one normalization, in front of its main sublayer.
C13_DecoderBlock_two_residuals ==
    lm_call = "DecoderBlock"
        => LET r == lm_ret
           IN  /\ Len(r) = 2
               /\ r[1].kind = "Residual" /\ r[2].kind = "Residual"
               /\ Len(r[1].sub) = 2
               /\ r[1].sub[1].kind = "LayerNorm"
               /\ r[1].sub[2].kind = "CausalAttention"
               /\ r[1].sub[2].n1 = 512 /\ r[1].sub[2].n2 = 8
               /\ r[1].sub[2].rate = lm_args.dropout
               /\ r[1].sub[2].mode = lm_args.mode
               /\ Len(r[2].sub) = 6
               /\ r[2].sub[1].kind = "LayerNorm"
               /\ r[2].sub[2].kind = "Dense" /\ r[2].sub[2].n1 = 2048
               /\ r[2].sub[3].kind = "Relu"
               /\ r[2].sub[4].kind = "Dropout"
               /\ r[2].sub[5].kind = "Dense" /\ r[2].sub[5].n1 = 512
               /\ r[2].sub[6].kind = "Dropout"
               /\ Positions(r[1].sub, "LayerNorm") = {1}
               /\ Positions(r[2].sub, "LayerNorm") = {1}

C13_witness ==
    /\ lm_call = "DecoderBlock"
    /\ lm_args.mode = "eval"
    /\ Len(lm_ret) = 2
    /\ lm_ret[2].sub[1].kind = "LayerNorm"

\* Dropout is inactive in the model built last.
DropoutInactive == lm_args.mode = "eval" \/ lm_args.dropout = 0

\* Two token sequences agree on the positions before t.
AgreeBefore(a, b, t) == \A s \in 1..(t - 1) : a[s] = b[s]

====
